---- MODULE Spec2Model ----
(***************************************************************************)
(* Model of the GEX dashboard core:                                        *)
(*   - utils/gex_calculator.py : parse_option_symbol and the thread-safe   *)
(*     GEXCalculator (one threading.Lock, option records, per-strike       *)
(*     exposure, rolling time series);                                     *)
(*   - utils/websocket_manager.py : OptionsWebSocket (connect handshake,   *)
(*     background _message_loop with reconnect backoff, start/stop).       *)
(* Floats are modelled by integers; an optional value (None or a number)   *)
(* is a set with zero or one element.                                      *)
(***************************************************************************)
EXTENDS Integers, Sequences, FiniteSets, TLC

VARIABLES
    \* ---- GEXCalculator --------------------------------------------------
    spot_price,          \* self.spot_price
    options,             \* self.options: symbol text -> record
    gex_by_strike,       \* self.gex_by_strike, in insertion order
    time_series,         \* self.time_series (deque, maxlen 720)
    last_snapshot_time,  \* self.last_snapshot_time
    lock,                \* holder of self.lock, or NoHolder
    now,                 \* the wall clock read by time.time()
    pc,                  \* position of each calling thread
    local,               \* per-thread arguments and locals of the call
    ret,                 \* last value returned by add_time_series_snapshot
    calls,               \* number of operations invoked so far
    \* ---- OptionsWebSocket -----------------------------------------------
    running,             \* self.running
    connected,           \* self.connected
    ws,                  \* self.ws: transport id, or NoConn
    thread,              \* self.thread: id of the last thread started, or NoLoop
    transport,           \* transport id -> "open" | "closed"
    loop,                \* state of each _message_loop thread
    ctl,                 \* position of the foreground caller of start/stop
    dispatched,          \* FEED_DATA frames handed to on_data_callback
    delivered,           \* frames the feed has delivered so far
    sentk,               \* transport id -> kinds of frames sent on it
    rcvd,                \* transport id -> handshake kinds received on it
    env,                 \* the run's environment: transports the network
                         \* lets the client open, frames the feed sends,
                         \* and whether the wire is recorded
    \* ---- dashboards (fetch_option_data, createCalculator) ---------------
    data,                \* data: symbol text -> pending record
    dorder,              \* insertion order of the keys of data
    phase,               \* "fetch" while events are merged, then "shown"
    \* ---- option ladder and its subscription -----------------------------
    request,             \* arguments of the last generate_option_symbols
    symbols,             \* the list generate_option_symbols returned
    add_list,            \* add_list of subscribe_to_options
    outbox               \* frames subscribe_to_options has sent

aggVars == <<spot_price, options, gex_by_strike, time_series,
             last_snapshot_time, lock, now, pc, local, ret, calls>>
wsVars  == <<running, connected, ws, thread, transport, loop, ctl,
             dispatched, delivered, sentk, rcvd, env>>
ladderVars == <<request, symbols, add_list, outbox>>
dashVars == <<data, dorder, phase, ladderVars>>
vars    == <<spot_price, options, gex_by_strike, time_series,
             last_snapshot_time, lock, now, pc, local, ret, calls,
             running, connected, ws, thread, transport, loop, ctl,
             dispatched, delivered, sentk, rcvd, env, data, dorder, phase,
             request, symbols, add_list, outbox>>

-----------------------------------------------------------------------------
(* Generic helpers *)

Min(a, b) == IF a < b THEN a ELSE b

Abs(a) == IF a < 0 THEN -a ELSE a

Sgn(a) == IF a < 0 THEN -1 ELSE IF a > 0 THEN 1 ELSE 0

\* An optional value: {} is None, {v} is the value v.
None == {}

Some(v) == {v}

IsPresent(x) == x # {}

Val(x) == CHOOSE v \in x : TRUE

RECURSIVE SumOver(_, _)
SumOver(S, f) ==
    IF S = {} THEN 0
    ELSE LET x == CHOOSE y \in S : TRUE
         IN f[x] + SumOver(S \ {x}, f)

-----------------------------------------------------------------------------
(* Bounds of the model *)

\* Operations invoked on the calculator in one behaviour.
MaxCalls == 3

\* The clock value at construction (time.time() is far above 5).
StartTime == 1000

-----------------------------------------------------------------------------
(* parse_option_symbol *)

Letters == {"A", "B", "C", "D", "E", "F", "G", "H", "I", "J", "K", "L", "M",
            "N", "O", "P", "Q", "R", "S", "T", "U", "V", "W", "X", "Y", "Z"}

Digits == {"0", "1", "2", "3", "4", "5", "6", "7", "8", "9"}

DigitVal(c) ==
    CASE c = "0" -> 0 [] c = "1" -> 1 [] c = "2" -> 2 [] c = "3" -> 3
      [] c = "4" -> 4 [] c = "5" -> 5 [] c = "6" -> 6 [] c = "7" -> 7
      [] c = "8" -> 8 [] c = "9" -> 9

\* int(): the value of a sequence of decimal digits.
RECURSIVE ToInt(_)
ToInt(ds) ==
    IF ds = <<>> THEN 0
    ELSE 10 * ToInt(SubSeq(ds, 1, Len(ds) - 1)) + DigitVal(ds[Len(ds)])

\* Length of the longest run of characters of class S starting at index i
\* (a greedy + or * of the regular expression).
RECURSIVE RunLen(_, _, _)
RunLen(s, i, S) ==
    IF i <= Len(s) /\ s[i] \in S THEN 1 + RunLen(s, i + 1, S) ELSE 0

\* A parser that rejects nothing.
ParseAnything(s) ==
    Some([prefix |-> <<>>, expiration |-> <<>>, type |-> "C", strike |-> 0])

\* re.match(r'\.([A-Z]+)(\d{6})([CP])(\d+)', symbol): anchored at the start
\* only.  The result is None or Some(record).
ParseOptionSymbol(s) ==
    LET nl == RunLen(s, 2, Letters)
        d0 == 2 + nl
        nd == RunLen(s, d0 + 7, Digits)
    IN  IF /\ Len(s) >= 1
           /\ s[1] = "."
           /\ nl >= 1
           /\ RunLen(s, d0, Digits) >= 6
           /\ d0 + 6 <= Len(s)
           /\ s[d0 + 6] \in {"C", "P"}
           /\ nd >= 1
        THEN Some([prefix     |-> SubSeq(s, 2, 1 + nl),
                   expiration |-> SubSeq(s, d0, d0 + 5),
                   type       |-> s[d0 + 6],
                   strike     |-> ToInt(SubSeq(s, d0 + 7, d0 + 6 + nd))])
        ELSE None

-----------------------------------------------------------------------------
(* GEXCalculator: constants, inputs and pure helpers *)

\* deque(maxlen=720)
MAXLEN == 720

\* max_history_seconds=3600
MaxHistorySeconds == 3600

\* "if current_time - self.last_snapshot_time < 5"
SnapshotInterval == 5

\* "each contract represents 100 shares"
ContractSize == 100

\* spot_price=6000
DefaultSpot == 6000

Threads == {"bg", "fg"}

NoHolder == "none"

\* Symbol texts handed to update_gamma: two calls and a put at strike 100,
\* a call at strike 105, a text with characters after the strike digits and
\* a text that is no option symbol.
SymCallA  == <<".", "A", "2", "5", "0", "1", "0", "1", "C", "1", "0", "0">>
SymCallB  == <<".", "B", "2", "5", "0", "1", "0", "1", "C", "1", "0", "0">>
SymPutA   == <<".", "A", "2", "5", "0", "1", "0", "1", "P", "1", "0", "0">>
SymCall2  == <<".", "A", "2", "5", "0", "1", "0", "1", "C", "1", "0", "5">>
SymTail   == <<".", "A", "2", "5", "0", "1", "0", "1", "P", "1", "0", "5",
               ".", "5">>
SymBad    == <<"N", "O", "T", "A", "S", "Y", "M", "B", "O", "L">>

SymbolTexts == {SymCallA, SymCallB, SymPutA, SymCall2, SymTail, SymBad}

Gammas == {None, Some(1), Some(2)}

OpenInterests == {None, Some(3)}

Prices == {DefaultSpot, 6005}

\* Seconds by which the clock has advanced since it was last read.
Elapsed == {0, 2, 6}

\* The background thread delivers option updates; foreground callers change
\* the spot price and read; either may ask for a snapshot.
Updaters == {"bg"}

Readers == {"fg"}

LocalInit == [symbol |-> <<>>, gamma |-> None, oi |-> None, type |-> "",
              strike |-> 0, price |-> 0, current_time |-> 0, nested |-> FALSE]

\* A calculator whose operations do not wait for the lock.
CanAcquireUnlocked(t) == TRUE

\* "with self.lock": threading.Lock is not reentrant, so the holder itself
\* cannot take it a second time.
CanAcquire(t) == lock = NoHolder

\* A recompute that forgets the side filter of the sum.
ContributorsAnySide(opts, strike, type) ==
    {s \in DOMAIN opts : /\ opts[s].strike = strike
                         /\ IsPresent(opts[s].gamma)
                         /\ IsPresent(opts[s].oi)}

\* The generator summed in _recalculate_gex_for_option: every tracked record
\* of the strike and side whose gamma and oi are both not None.
Contributors(opts, strike, type) ==
    {s \in DOMAIN opts : /\ opts[s].strike = strike
                         /\ opts[s].type = type
                         /\ IsPresent(opts[s].gamma)
                         /\ IsPresent(opts[s].oi)}

SideSum(opts, strike, type, spot) ==
    LET C == Contributors(opts, strike, type)
    IN  SumOver(C, [s \in C |->
                      Val(opts[s].gamma) * Val(opts[s].oi) * ContractSize * spot])

HasStrike(gbs, strike) == \E i \in 1..Len(gbs) : gbs[i].strike = strike

StrikeIndex(gbs, strike) == CHOOSE i \in 1..Len(gbs) : gbs[i].strike = strike

\* A recompute that adds the new sum to the stored value.
AddSide(gbs, strike, type, value) ==
    LET base == IF HasStrike(gbs, strike) THEN gbs
                ELSE Append(gbs, [strike |-> strike, call_gex |-> 0,
                                  put_gex |-> 0])
        i    == StrikeIndex(base, strike)
    IN  IF type = "C" THEN [base EXCEPT ![i].call_gex = @ + value]
        ELSE [base EXCEPT ![i].put_gex = @ + value]

\* self.gex_by_strike[strike]['call_gex' | 'put_gex'] = value, on a
\* defaultdict: a missing strike is first inserted with 0.0 on both sides.
SetSide(gbs, strike, type, value) ==
    LET base == IF HasStrike(gbs, strike) THEN gbs
                ELSE Append(gbs, [strike |-> strike, call_gex |-> 0,
                                  put_gex |-> 0])
        i    == StrikeIndex(base, strike)
    IN  IF type = "C" THEN [base EXCEPT ![i].call_gex = value]
        ELSE [base EXCEPT ![i].put_gex = value]

\* The value of one side of a strike (0 when the strike is not tracked).
SideValue(gbs, strike, type) ==
    IF ~HasStrike(gbs, strike) THEN 0
    ELSE IF type = "C" THEN gbs[StrikeIndex(gbs, strike)].call_gex
         ELSE gbs[StrikeIndex(gbs, strike)].put_gex

NetGex(row) == row.call_gex - row.put_gex

\* A frame sorted the wrong way round.
RECURSIVE SortDescending(_)
SortDescending(rows) ==
    IF rows = {} THEN <<>>
    ELSE LET m == CHOOSE r \in rows : \A q \in rows : r.strike >= q.strike
         IN  <<m>> \o SortDescending(rows \ {m})

\* sorted(...) of rows by strike (strikes are the unique keys of the dict).
RECURSIVE SortByStrike(_)
SortByStrike(rows) ==
    IF rows = {} THEN <<>>
    ELSE LET m == CHOOSE r \in rows : \A q \in rows : r.strike <= q.strike
         IN  <<m>> \o SortByStrike(rows \ {m})

RowSet(gbs) == {gbs[i] : i \in 1..Len(gbs)}

\* get_gex_by_strike: rows with net_gex, sorted by strike.
GetGexByStrike(gbs) ==
    LET sorted == SortByStrike(RowSet(gbs))
    IN  [i \in 1..Len(sorted) |->
            [strike   |-> sorted[i].strike,
             call_gex |-> sorted[i].call_gex,
             put_gex  |-> sorted[i].put_gex,
             net_gex  |-> NetGex(sorted[i])]]

\* A scan that takes a net value of zero for a crossing.
RECURSIVE ZeroScanInclusive(_, _)
ZeroScanInclusive(sorted, i) ==
    IF i >= Len(sorted) THEN None
    ELSE LET n1 == NetGex(sorted[i])
             n2 == NetGex(sorted[i + 1])
         IN  IF Sgn(n1) * Sgn(n2) <= 0 /\ n2 # n1
             THEN Some([num |-> sorted[i].strike * (n2 - n1)
                                + (sorted[i + 1].strike - sorted[i].strike) * (-n1),
                        den |-> n2 - n1])
             ELSE ZeroScanInclusive(sorted, i + 1)

\* _get_zero_gamma_level_unlocked: the first adjacent pair of sorted strikes
\* whose net values have a negative product.  The interpolated level
\* s1 + (s2 - s1) * (-n1) / (n2 - n1) is kept as the exact fraction num/den.
\* The product of two exposures does not fit the integers of the checker;
\* its sign is the product of the signs.
RECURSIVE ZeroScan(_, _)
ZeroScan(sorted, i) ==
    IF i >= Len(sorted) THEN None
    ELSE LET n1 == NetGex(sorted[i])
             n2 == NetGex(sorted[i + 1])
         IN  IF Sgn(n1) * Sgn(n2) < 0 /\ n2 # n1
             THEN Some([num |-> sorted[i].strike * (n2 - n1)
                                + (sorted[i + 1].strike - sorted[i].strike) * (-n1),
                        den |-> n2 - n1])
             ELSE ZeroScan(sorted, i + 1)

ZeroGammaLevel(gbs) ==
    IF Len(gbs) < 2 THEN None ELSE ZeroScan(SortByStrike(RowSet(gbs)), 1)

\* The loop of get_total_gex_metrics over the dict in insertion order:
\* the running (max_net_gex, max_gex_strike) pair after the first i rows.
RECURSIVE MaxScan(_, _)
MaxScan(gbs, i) ==
    IF i = 0 THEN [value |-> 0, strike |-> 0]
    ELSE LET prev == MaxScan(gbs, i - 1)
         IN  IF Abs(NetGex(gbs[i])) > Abs(prev.value)
             THEN [value |-> NetGex(gbs[i]), strike |-> gbs[i].strike]
             ELSE prev

\* Metrics whose net value adds the put total, as the docstring words it.
MetricsNetIsSum(gbs, opts) ==
    LET idx   == 1..Len(gbs)
        tcall == SumOver(idx, [i \in idx |-> gbs[i].call_gex])
        tput  == SumOver(idx, [i \in idx |-> gbs[i].put_gex])
        mx    == MaxScan(gbs, Len(gbs))
    IN  [total_call_gex |-> tcall, total_put_gex |-> tput,
         net_gex |-> tcall + tput,
         max_gex_strike |-> mx.strike, max_gex_value |-> mx.value,
         zero_gamma |-> ZeroGammaLevel(gbs),
         num_options |-> Cardinality(DOMAIN opts)]

\* get_total_gex_metrics: the values of the returned dict.
GetTotalGexMetrics(gbs, opts) ==
    LET idx   == 1..Len(gbs)
        tcall == SumOver(idx, [i \in idx |-> gbs[i].call_gex])
        tput  == SumOver(idx, [i \in idx |-> gbs[i].put_gex])
        mx    == MaxScan(gbs, Len(gbs))
    IN  IF gbs = <<>>
        THEN [total_call_gex |-> 0, total_put_gex |-> 0, net_gex |-> 0,
              max_gex_strike |-> 0, max_gex_value |-> 0,
              zero_gamma |-> None, num_options |-> 0]
        ELSE [total_call_gex |-> tcall, total_put_gex |-> tput,
              net_gex |-> tcall - tput,
              max_gex_strike |-> mx.strike, max_gex_value |-> mx.value,
              zero_gamma |-> ZeroGammaLevel(gbs),
              num_options |-> Cardinality(DOMAIN opts)]

\* deque.append on a deque with maxlen: a full deque drops its oldest entry.
DequeAppend(q, x) ==
    IF Len(q) >= MAXLEN THEN Append(Tail(q), x) ELSE Append(q, x)

\* "while self.time_series and self.time_series[0]['timestamp'] < cutoff_time:
\*      self.time_series.popleft()"
RECURSIVE PruneOld(_, _)
PruneOld(q, cutoff) ==
    IF q # <<>> /\ q[1].timestamp < cutoff THEN PruneOld(Tail(q), cutoff) ELSE q

-----------------------------------------------------------------------------
(* GEXCalculator: operations.  A thread at "idle" is outside the calculator; *)
(* every "with self.lock" is an acquire step followed by the locked body,    *)
(* whose last step releases the lock.                                        *)

Return(t) ==
    /\ pc' = [pc EXCEPT ![t] = "idle"]
    /\ local' = [local EXCEPT ![t] = LocalInit]

Invoke(t) ==
    /\ pc[t] = "idle"
    /\ calls < MaxCalls
    /\ calls' = calls + 1

\* update_spot_price(price)
UpdateSpotPriceCall(t, price) ==
    /\ Invoke(t)
    /\ pc' = [pc EXCEPT ![t] = "spot_acquire"]
    /\ local' = [local EXCEPT ![t].price = price]
    /\ UNCHANGED <<spot_price, options, gex_by_strike, time_series,
                   last_snapshot_time, lock, now, ret>>
    /\ UNCHANGED <<wsVars, dashVars>>

UpdateSpotPriceAcquire(t) ==
    /\ pc[t] = "spot_acquire"
    /\ CanAcquire(t)
    /\ lock' = t
    /\ pc' = [pc EXCEPT ![t] = "spot_body"]
    /\ UNCHANGED <<spot_price, options, gex_by_strike, time_series,
                   last_snapshot_time, now, local, ret, calls>>
    /\ UNCHANGED <<wsVars, dashVars>>

\* An update_spot_price that recomputes every strike under the new price.
UpdateSpotPriceRecomputing(t) ==
    /\ pc[t] = "spot_body"
    /\ spot_price' = local[t].price
    /\ gex_by_strike' =
          [i \in 1..Len(gex_by_strike) |->
              [strike   |-> gex_by_strike[i].strike,
               call_gex |-> SideSum(options, gex_by_strike[i].strike, "C",
                                    local[t].price),
               put_gex  |-> SideSum(options, gex_by_strike[i].strike, "P",
                                    local[t].price)]]
    /\ lock' = NoHolder
    /\ Return(t)
    /\ UNCHANGED <<options, time_series, last_snapshot_time, now, ret, calls>>
    /\ UNCHANGED <<wsVars, dashVars>>

\* "with self.lock: self.spot_price = price"
UpdateSpotPriceBody(t) ==
    /\ pc[t] = "spot_body"
    /\ spot_price' = local[t].price
    /\ lock' = NoHolder
    /\ Return(t)
    /\ UNCHANGED <<options, gex_by_strike, time_series, last_snapshot_time,
                   now, ret, calls>>
    /\ UNCHANGED <<wsVars, dashVars>>

\* update_gamma(symbol, gamma, open_interest): the symbol is parsed before
\* the lock is taken; an unparseable symbol leads to the early return.
UpdateGammaCall(t, symbol, gamma, oi) ==
    LET parsed == ParseOptionSymbol(symbol)
    IN  /\ Invoke(t)
        /\ IF parsed = None
           THEN /\ pc' = [pc EXCEPT ![t] = "upd_invalid"]
                /\ local' = [local EXCEPT ![t] =
                                [LocalInit EXCEPT !.symbol = symbol,
                                                  !.gamma = gamma,
                                                  !.oi = oi]]
           ELSE /\ pc' = [pc EXCEPT ![t] = "upd_acquire"]
                /\ local' = [local EXCEPT ![t] =
                                [symbol |-> symbol, gamma |-> gamma, oi |-> oi,
                                 type |-> Val(parsed).type,
                                 strike |-> Val(parsed).strike,
                                 price |-> 0, current_time |-> 0,
                                 nested |-> FALSE]]
        /\ UNCHANGED <<spot_price, options, gex_by_strike, time_series,
                       last_snapshot_time, lock, now, ret>>
        /\ UNCHANGED <<wsVars, dashVars>>

\* "if not parsed: return"
UpdateGammaInvalid(t) ==
    /\ pc[t] = "upd_invalid"
    /\ Return(t)
    /\ UNCHANGED <<spot_price, options, gex_by_strike, time_series,
                   last_snapshot_time, lock, now, ret, calls>>
    /\ UNCHANGED <<wsVars, dashVars>>

UpdateGammaAcquire(t) ==
    /\ pc[t] = "upd_acquire"
    /\ CanAcquire(t)
    /\ lock' = t
    /\ pc' = [pc EXCEPT ![t] = "upd_store"]
    /\ UNCHANGED <<spot_price, options, gex_by_strike, time_series,
                   last_snapshot_time, now, local, ret, calls>>
    /\ UNCHANGED <<wsVars, dashVars>>

\* self.options[symbol] = {...}
UpdateGammaStore(t) ==
    /\ pc[t] = "upd_store"
    /\ options' = [s \in DOMAIN options \cup {local[t].symbol} |->
                     IF s = local[t].symbol
                     THEN [gamma |-> local[t].gamma, oi |-> local[t].oi,
                           type |-> local[t].type, strike |-> local[t].strike]
                     ELSE options[s]]
    /\ pc' = [pc EXCEPT ![t] = "upd_recalc"]
    /\ UNCHANGED <<spot_price, gex_by_strike, time_series, last_snapshot_time,
                   lock, now, local, ret, calls>>
    /\ UNCHANGED <<wsVars, dashVars>>

\* A recompute that is skipped when gamma or open interest is absent.
RecalculateWhenKnown(t) ==
    /\ pc[t] = "upd_recalc"
    /\ IF local[t].gamma # None /\ local[t].oi # None
       THEN LET o == options[local[t].symbol]
            IN  gex_by_strike' =
                    SetSide(gex_by_strike, o.strike, o.type,
                            SideSum(options, o.strike, o.type, spot_price))
       ELSE UNCHANGED gex_by_strike
    /\ lock' = NoHolder
    /\ Return(t)
    /\ UNCHANGED <<spot_price, options, time_series, last_snapshot_time,
                   now, ret, calls>>
    /\ UNCHANGED <<wsVars, dashVars>>

\* A recompute that renews both sides of the strike.
RecalculateBothSides(t) ==
    /\ pc[t] = "upd_recalc"
    /\ LET o == options[local[t].symbol]
       IN  gex_by_strike' =
               SetSide(SetSide(gex_by_strike, o.strike, "C",
                               SideSum(options, o.strike, "C", spot_price)),
                       o.strike, "P",
                       SideSum(options, o.strike, "P", spot_price))
    /\ lock' = NoHolder
    /\ Return(t)
    /\ UNCHANGED <<spot_price, options, time_series, last_snapshot_time,
                   now, ret, calls>>
    /\ UNCHANGED <<wsVars, dashVars>>

\* _recalculate_gex_for_option(symbol), then the end of the with block.
RecalculateGexForOption(t) ==
    /\ pc[t] = "upd_recalc"
    /\ IF local[t].symbol \in DOMAIN options
       THEN LET o == options[local[t].symbol]
            IN  gex_by_strike' =
                    SetSide(gex_by_strike, o.strike, o.type,
                            SideSum(options, o.strike, o.type, spot_price))
       ELSE UNCHANGED gex_by_strike
    /\ lock' = NoHolder
    /\ Return(t)
    /\ UNCHANGED <<spot_price, options, time_series, last_snapshot_time,
                   now, ret, calls>>
    /\ UNCHANGED <<wsVars, dashVars>>

\* get_gex_by_strike()
GetGexByStrikeCall(t) ==
    /\ Invoke(t)
    /\ pc' = [pc EXCEPT ![t] = "gbs_acquire"]
    /\ UNCHANGED <<spot_price, options, gex_by_strike, time_series,
                   last_snapshot_time, lock, now, local, ret>>
    /\ UNCHANGED <<wsVars, dashVars>>

GetGexByStrikeAcquire(t) ==
    /\ pc[t] = "gbs_acquire"
    /\ CanAcquire(t)
    /\ lock' = t
    /\ pc' = [pc EXCEPT ![t] = "gbs_body"]
    /\ UNCHANGED <<spot_price, options, gex_by_strike, time_series,
                   last_snapshot_time, now, local, ret, calls>>
    /\ UNCHANGED <<wsVars, dashVars>>

\* The returned frame is GetGexByStrike(gex_by_strike) of this state.
GetGexByStrikeBody(t) ==
    /\ pc[t] = "gbs_body"
    /\ lock' = NoHolder
    /\ Return(t)
    /\ UNCHANGED <<spot_price, options, gex_by_strike, time_series,
                   last_snapshot_time, now, ret, calls>>
    /\ UNCHANGED <<wsVars, dashVars>>

\* get_time_series()
GetTimeSeriesCall(t) ==
    /\ Invoke(t)
    /\ pc' = [pc EXCEPT ![t] = "ts_acquire"]
    /\ UNCHANGED <<spot_price, options, gex_by_strike, time_series,
                   last_snapshot_time, lock, now, local, ret>>
    /\ UNCHANGED <<wsVars, dashVars>>

GetTimeSeriesAcquire(t) ==
    /\ pc[t] = "ts_acquire"
    /\ CanAcquire(t)
    /\ lock' = t
    /\ pc' = [pc EXCEPT ![t] = "ts_body"]
    /\ UNCHANGED <<spot_price, options, gex_by_strike, time_series,
                   last_snapshot_time, now, local, ret, calls>>
    /\ UNCHANGED <<wsVars, dashVars>>

\* The returned frame is time_series of this state.
GetTimeSeriesBody(t) ==
    /\ pc[t] = "ts_body"
    /\ lock' = NoHolder
    /\ Return(t)
    /\ UNCHANGED <<spot_price, options, gex_by_strike, time_series,
                   last_snapshot_time, now, ret, calls>>
    /\ UNCHANGED <<wsVars, dashVars>>

\* get_total_gex_metrics(), called by a client
GetTotalGexMetricsCall(t) ==
    /\ Invoke(t)
    /\ pc' = [pc EXCEPT ![t] = "met_acquire"]
    /\ UNCHANGED <<spot_price, options, gex_by_strike, time_series,
                   last_snapshot_time, lock, now, local, ret>>
    /\ UNCHANGED <<wsVars, dashVars>>

\* "with self.lock" of get_total_gex_metrics, reached from a client call or
\* from inside the with block of add_time_series_snapshot (local.nested).
GetTotalGexMetricsAcquire(t) ==
    /\ pc[t] = "met_acquire"
    /\ CanAcquire(t)
    /\ lock' = t
    /\ pc' = [pc EXCEPT ![t] = "met_body"]
    /\ UNCHANGED <<spot_price, options, gex_by_strike, time_series,
                   last_snapshot_time, now, local, ret, calls>>
    /\ UNCHANGED <<wsVars, dashVars>>

\* The body of get_total_gex_metrics and the end of its with block.  When it
\* was called by add_time_series_snapshot, the rest of that method follows:
\* append the snapshot, record the time, prune by age, return True.
GetTotalGexMetricsBody(t) ==
    /\ pc[t] = "met_body"
    /\ lock' = NoHolder
    /\ IF local[t].nested
       THEN LET metrics == GetTotalGexMetrics(gex_by_strike, options)
                ct      == local[t].current_time
            IN  /\ time_series' =
                       PruneOld(DequeAppend(time_series,
                                            [timestamp |-> ct,
                                             total_gex |-> metrics.net_gex]),
                                ct - MaxHistorySeconds)
                /\ last_snapshot_time' = ct
                /\ ret' = [ret EXCEPT ![t] = "True"]
       ELSE UNCHANGED <<time_series, last_snapshot_time, ret>>
    /\ Return(t)
    /\ UNCHANGED <<spot_price, options, gex_by_strike, now, calls>>
    /\ UNCHANGED <<wsVars, dashVars>>

\* add_time_series_snapshot(): current_time = time.time(), d seconds after
\* the clock was last read.
AddTimeSeriesSnapshotCall(t, d) ==
    /\ Invoke(t)
    /\ now' = now + d
    /\ pc' = [pc EXCEPT ![t] = "snap_check"]
    /\ local' = [local EXCEPT ![t].current_time = now + d]
    /\ UNCHANGED <<spot_price, options, gex_by_strike, time_series,
                   last_snapshot_time, lock, ret>>
    /\ UNCHANGED <<wsVars, dashVars>>

\* "if current_time - self.last_snapshot_time < 5: return False", read
\* without the lock.
AddTimeSeriesSnapshotCheck(t) ==
    /\ pc[t] = "snap_check"
    /\ IF local[t].current_time - last_snapshot_time < SnapshotInterval
       THEN /\ ret' = [ret EXCEPT ![t] = "False"]
            /\ Return(t)
       ELSE /\ pc' = [pc EXCEPT ![t] = "snap_acquire"]
            /\ UNCHANGED <<local, ret>>
    /\ UNCHANGED <<spot_price, options, gex_by_strike, time_series,
                   last_snapshot_time, lock, now, calls>>
    /\ UNCHANGED <<wsVars, dashVars>>

\* "with self.lock:" of add_time_series_snapshot; its first statement calls
\* self.get_total_gex_metrics(), which takes self.lock again.
AddTimeSeriesSnapshotAcquire(t) ==
    /\ pc[t] = "snap_acquire"
    /\ CanAcquire(t)
    /\ lock' = t
    /\ pc' = [pc EXCEPT ![t] = "met_acquire"]
    /\ local' = [local EXCEPT ![t].nested = TRUE]
    /\ UNCHANGED <<spot_price, options, gex_by_strike, time_series,
                   last_snapshot_time, now, ret, calls>>
    /\ UNCHANGED <<wsVars, dashVars>>

InitAgg ==
    /\ spot_price = DefaultSpot
    /\ options = <<>>
    /\ gex_by_strike = <<>>
    /\ time_series = <<>>
    /\ last_snapshot_time = 0
    /\ lock = NoHolder
    /\ now = StartTime
    /\ pc = [t \in Threads |-> "idle"]
    /\ local = [t \in Threads |-> LocalInit]
    /\ ret = [t \in Threads |-> "none"]
    /\ calls = 0

\* The steps a thread takes inside an operation it has invoked.
Continue(t) ==
    \/ UpdateSpotPriceAcquire(t)
    \/ UpdateSpotPriceBody(t)
    \/ UpdateGammaAcquire(t)
    \/ UpdateGammaStore(t)
    \/ RecalculateGexForOption(t)
    \/ GetGexByStrikeAcquire(t)
    \/ UpdateGammaInvalid(t)
    \/ GetGexByStrikeBody(t)
    \/ GetTimeSeriesAcquire(t)
    \/ GetTimeSeriesBody(t)
    \/ GetTotalGexMetricsAcquire(t)
    \/ GetTotalGexMetricsBody(t)
    \/ AddTimeSeriesSnapshotCheck(t)
    \/ AddTimeSeriesSnapshotAcquire(t)

CallOp(t) ==
    \/ \E symbol \in SymbolTexts, gamma \in Gammas, oi \in OpenInterests :
           t \in Updaters /\ UpdateGammaCall(t, symbol, gamma, oi)
    \/ \E price \in Prices : t \in Readers /\ UpdateSpotPriceCall(t, price)
    \/ t \in Readers /\ GetGexByStrikeCall(t)
    \/ t \in Readers /\ GetTimeSeriesCall(t)
    \/ t \in Readers /\ GetTotalGexMetricsCall(t)
    \/ \E d \in Elapsed : AddTimeSeriesSnapshotCall(t, d)

NextAgg == \E t \in Threads : CallOp(t) \/ Continue(t)

-----------------------------------------------------------------------------
(* OptionsWebSocket: constants and helpers *)

\* reconnect_delay = 5
InitialDelay == 5

\* max_reconnect_delay = 60
MaxReconnectDelay == 60

\* "for _ in range(20)" of get_underlying_price
PriceAttempts == 20

\* self.ws = None
NoConn == 0

\* self.thread = None
NoLoop == 0

\* self.thread.join(timeout=5)
JoinTimeout == 5

\* Transports create_connection opens in one behaviour.
MaxConns == 1

\* Frames the feed delivers in one behaviour.
MaxFrames == 4

\* The consecutive-failure count is followed up to this value.
MaxFails == 5

\* Transports and frames of the runs that follow connect() alone.
HSConns == 2

HSFrames == 2

\* The threads start_listening can start, in the order it starts them.
Loops == {1, 2}

\* Frames the feed may deliver.  FEED_QUOTE is a FEED_DATA frame holding a
\* Quote of the underlying with bid and ask; MALFORMED is text json.loads
\* rejects; OTHER is any other well-formed frame (ERROR, CHANNEL_CLOSED, ...).
FrameKinds == {"AUTH_UNAUTHORIZED", "AUTH_AUTHORIZED", "CHANNEL_OPENED",
               "FEED_DATA", "FEED_QUOTE", "KEEPALIVE", "OTHER", "MALFORMED"}

LoopInit == [pc |-> "unborn", delay |-> InitialDelay, fails |-> 0,
             attempts |-> 0, conn |-> NoConn]

IsOpen(c) == c # NoConn /\ transport[c] = "open"

\* The frames of the handshake, whose receipt on a transport is recorded.
HandshakeKinds == {"AUTH_UNAUTHORIZED", "AUTH_AUTHORIZED", "CHANNEL_OPENED"}

\* self.ws.send(...) of a frame of kind k on transport c.
Sent(c, k) == IF env.log THEN [sentk EXCEPT ![c] = @ \cup {k}] ELSE sentk

\* self.ws.recv() returned frame f on transport c.
Received(c, f) ==
    IF env.log /\ f \in HandshakeKinds
    THEN [rcvd EXCEPT ![c] = @ \cup {f}]
    ELSE rcvd

\* reconnect_delay = min(reconnect_delay * 2, max_reconnect_delay)
NextDelay(d) == Min(d * 2, MaxReconnectDelay)

\* A loop that forgets to reset the delay after a successful connect.
KeepDelay(d) == d

\* "reconnect_delay = 5" after a successful connect and subscribe
ResetDelay(d) == InitialDelay

\* connect() ends in its except branch: self.connected = False; return False.
\* _message_loop then sleeps reconnect_delay.
ConnectFailed(i) ==
    /\ connected' = FALSE
    /\ loop' = [loop EXCEPT ![i].pc = "sleep",
                            ![i].fails = Min(loop[i].fails + 1, MaxFails),
                            ![i].conn = NoConn]

\* Except branches that end the thread.
LoopFailedExits(i) ==
    /\ connected' = FALSE
    /\ loop' = [loop EXCEPT ![i].pc = "exited", ![i].conn = NoConn]

\* An exception reaches the except branches of _message_loop:
\* self.connected = False, and a sleep only "if self.running".
LoopFailed(i) ==
    /\ connected' = FALSE
    /\ IF running
       THEN loop' = [loop EXCEPT ![i].pc = "sleep",
                                      ![i].fails = Min(loop[i].fails + 1, MaxFails),
                                 ![i].conn = NoConn]
       ELSE loop' = [loop EXCEPT ![i].pc = "top", ![i].conn = NoConn]

-----------------------------------------------------------------------------
(* OptionsWebSocket: the background thread running _message_loop.  A blocking *)
(* recv() is a position of the thread; the frame it returns is chosen by the  *)
(* feed, and a recv() or send() on a closed transport raises.                 *)

Deliver == /\ delivered < env.frames
           /\ delivered' = delivered + 1

\* "while self.running:" of _message_loop; connect() is entered when it holds.
LoopTop(i) ==
    /\ loop[i].pc = "top"
    /\ loop' = [loop EXCEPT ![i].pc = IF running THEN "create" ELSE "exited"]
    /\ UNCHANGED <<running, connected, ws, thread, transport, ctl, dispatched,
                   delivered>>
    /\ UNCHANGED <<sentk, rcvd>>
    /\ UNCHANGED <<env, aggVars, dashVars>>

\* self.ws = create_connection(DXFEED_URL) succeeds.
ConnectCreate(i) ==
    /\ loop[i].pc = "create"
    /\ Len(transport) < env.conns
    /\ transport' = Append(transport, "open")
    /\ ws' = Len(transport) + 1
    /\ loop' = [loop EXCEPT ![i].pc = "setup"]
    /\ UNCHANGED <<running, connected, thread, ctl, dispatched, delivered>>
    /\ sentk' = Append(sentk, {})
    /\ rcvd' = Append(rcvd, {})
    /\ UNCHANGED <<env, aggVars, dashVars>>

\* create_connection raises (no route, refused, TLS failure, ...).
ConnectCreateFails(i) ==
    /\ loop[i].pc = "create"
    /\ ConnectFailed(i)
    /\ UNCHANGED <<running, ws, thread, transport, ctl, dispatched, delivered>>
    /\ UNCHANGED <<sentk, rcvd>>
    /\ UNCHANGED <<env, aggVars, dashVars>>

\* self.ws.send(SETUP), then the first recv() of the AUTH loop is called.
ConnectSetup(i) ==
    /\ loop[i].pc = "setup"
    /\ IF IsOpen(ws)
       THEN /\ loop' = [loop EXCEPT ![i].pc = "auth", ![i].conn = ws]
            /\ UNCHANGED connected
       ELSE ConnectFailed(i)
    /\ UNCHANGED <<running, ws, thread, transport, ctl, dispatched, delivered>>
    /\ sentk' = IF IsOpen(ws) THEN Sent(ws, "SETUP") ELSE sentk
    /\ UNCHANGED rcvd
    /\ UNCHANGED <<env, aggVars, dashVars>>

\* "while True: msg = json.loads(self.ws.recv())" awaiting AUTH_STATE:
\* UNAUTHORIZED is answered with the AUTH frame and the loop goes on,
\* AUTHORIZED leaves the loop and CHANNEL_REQUEST is sent, any other frame
\* is skipped.
ConnectAuthRecv(i, f) ==
    /\ loop[i].pc = "auth"
    /\ IsOpen(loop[i].conn)
    /\ Deliver
    /\ IF f = "MALFORMED"
          \/ (f \in {"AUTH_UNAUTHORIZED", "AUTH_AUTHORIZED"} /\ ~IsOpen(ws))
       THEN ConnectFailed(i)
       ELSE /\ loop' = [loop EXCEPT
                          ![i].pc = IF f = "AUTH_AUTHORIZED" THEN "chan"
                                    ELSE "auth",
                          ![i].conn = ws]
            /\ UNCHANGED connected
    /\ UNCHANGED <<running, ws, thread, transport, ctl, dispatched>>
    /\ rcvd' = Received(loop[i].conn, f)
    /\ sentk' = IF f = "AUTH_UNAUTHORIZED" /\ IsOpen(ws)
                THEN Sent(ws, "AUTH")
              ELSE IF f = "AUTH_AUTHORIZED" /\ IsOpen(ws)
                THEN Sent(ws, "CHANNEL_REQUEST")
              ELSE sentk
    /\ UNCHANGED <<env, aggVars, dashVars>>

\* "while True: msg = json.loads(self.ws.recv())" awaiting CHANNEL_OPENED on
\* channel 1; then self.connected = True and connect() returns True.
ConnectChanRecv(i, f) ==
    /\ loop[i].pc = "chan"
    /\ IsOpen(loop[i].conn)
    /\ Deliver
    /\ IF f = "MALFORMED"
       THEN ConnectFailed(i)
       ELSE IF f = "CHANNEL_OPENED"
       THEN /\ connected' = TRUE
            /\ loop' = [loop EXCEPT ![i].pc = "sub", ![i].fails = 0,
                                    ![i].conn = NoConn]
       ELSE /\ loop' = [loop EXCEPT ![i].conn = ws]
            /\ UNCHANGED connected
    /\ UNCHANGED <<running, ws, thread, transport, ctl, dispatched>>
    /\ rcvd' = Received(loop[i].conn, f)
    /\ UNCHANGED sentk
    /\ UNCHANGED <<env, aggVars, dashVars>>

\* A recv() of connect() on a transport that is closed raises.
ConnectRecvClosed(i) ==
    /\ loop[i].pc \in {"auth", "chan"}
    /\ ~IsOpen(loop[i].conn)
    /\ ConnectFailed(i)
    /\ UNCHANGED <<running, ws, thread, transport, ctl, dispatched, delivered>>
    /\ UNCHANGED <<sentk, rcvd>>
    /\ UNCHANGED <<env, aggVars, dashVars>>

\* time.sleep(reconnect_delay) ends; the delay doubles up to the ceiling.
SleepDone(i) ==
    /\ loop[i].pc = "sleep"
    /\ loop' = [loop EXCEPT ![i].pc = "top",
                            ![i].delay = NextDelay(loop[i].delay)]
    /\ UNCHANGED <<running, connected, ws, thread, transport, ctl, dispatched,
                   delivered>>
    /\ UNCHANGED <<sentk, rcvd>>
    /\ UNCHANGED <<env, aggVars, dashVars>>

\* subscribe_to_options -> get_underlying_price: the Quote of the underlying
\* is subscribed to; a failing send is caught and the default price is used.
PriceSubscribe(i) ==
    /\ loop[i].pc = "sub"
    /\ IF ws = NoConn
       THEN loop' = [loop EXCEPT ![i].pc = "check",
                                 ![i].delay = ResetDelay(loop[i].delay)]
       ELSE IF IsOpen(ws)
       THEN loop' = [loop EXCEPT ![i].pc = "price", ![i].attempts = 0,
                                 ![i].conn = ws]
       ELSE loop' = [loop EXCEPT ![i].pc = "sub_opts"]
    /\ UNCHANGED <<running, connected, ws, thread, transport, ctl, dispatched,
                   delivered>>
    /\ sentk' = IF IsOpen(ws) THEN Sent(ws, "FEED_SUBSCRIPTION") ELSE sentk
    /\ UNCHANGED rcvd
    /\ UNCHANGED <<env, aggVars, dashVars>>

\* One of the at most 20 recv() calls of get_underlying_price: a Quote of the
\* underlying ends the wait, an unparseable frame raises (caught there).
PriceRecv(i, f) ==
    /\ loop[i].pc = "price"
    /\ IsOpen(loop[i].conn)
    /\ Deliver
    /\ IF f \in {"FEED_QUOTE", "MALFORMED"}
          \/ loop[i].attempts + 1 >= PriceAttempts
       THEN loop' = [loop EXCEPT ![i].pc = "sub_opts", ![i].attempts = 0,
                                 ![i].conn = NoConn]
       ELSE loop' = [loop EXCEPT ![i].attempts = loop[i].attempts + 1,
                                 ![i].conn = ws]
    /\ UNCHANGED <<running, connected, ws, thread, transport, ctl, dispatched>>
    /\ rcvd' = Received(loop[i].conn, f)
    /\ UNCHANGED sentk
    /\ UNCHANGED <<env, aggVars, dashVars>>

\* A recv() of get_underlying_price on a closed transport raises; the
\* exception is caught there and the default price is returned.
PriceRecvClosed(i) ==
    /\ loop[i].pc = "price"
    /\ ~IsOpen(loop[i].conn)
    /\ loop' = [loop EXCEPT ![i].pc = "sub_opts", ![i].attempts = 0,
                            ![i].conn = NoConn]
    /\ UNCHANGED <<running, connected, ws, thread, transport, ctl, dispatched,
                   delivered>>
    /\ UNCHANGED <<sentk, rcvd>>
    /\ UNCHANGED <<env, aggVars, dashVars>>

\* The rest of subscribe_to_options: the FEED_SUBSCRIPTION add list is sent
\* (a failing send is caught), then "reconnect_delay = 5" in _message_loop.
SubscribeOptions(i) ==
    /\ loop[i].pc = "sub_opts"
    /\ loop' = [loop EXCEPT ![i].pc = "check",
                            ![i].delay = ResetDelay(loop[i].delay)]
    /\ UNCHANGED <<running, connected, ws, thread, transport, ctl, dispatched,
                   delivered>>
    /\ sentk' = IF IsOpen(ws) THEN Sent(ws, "FEED_SUBSCRIPTION") ELSE sentk
    /\ UNCHANGED rcvd
    /\ UNCHANGED <<env, aggVars, dashVars>>

\* "while self.running and self.connected:", then self.ws.recv() is called.
StreamCheck(i) ==
    /\ loop[i].pc = "check"
    /\ IF running /\ connected
       THEN loop' = [loop EXCEPT ![i].pc = "stream", ![i].conn = ws]
       ELSE loop' = [loop EXCEPT ![i].pc = "top"]
    /\ UNCHANGED <<running, connected, ws, thread, transport, ctl, dispatched,
                   delivered>>
    /\ UNCHANGED <<sentk, rcvd>>
    /\ UNCHANGED <<env, aggVars, dashVars>>

\* recv() returns a frame in the message processing loop: FEED_DATA goes to
\* on_data_callback, KEEPALIVE is answered with a KEEPALIVE frame (a send on
\* a closed transport raises), any other frame is dropped.
StreamRecv(i, f) ==
    /\ loop[i].pc = "stream"
    /\ IsOpen(loop[i].conn)
    /\ Deliver
    /\ IF f = "MALFORMED" \/ (f = "KEEPALIVE" /\ ~IsOpen(ws))
       THEN /\ LoopFailed(i)
            /\ UNCHANGED dispatched
       ELSE /\ loop' = [loop EXCEPT ![i].pc = "check", ![i].conn = NoConn]
            /\ dispatched' = IF f \in {"FEED_DATA", "FEED_QUOTE"}
                             THEN dispatched + 1 ELSE dispatched
            /\ UNCHANGED connected
    /\ UNCHANGED <<running, ws, thread, transport, ctl>>
    /\ rcvd' = Received(loop[i].conn, f)
    /\ sentk' = IF f = "KEEPALIVE" /\ IsOpen(ws)
                THEN Sent(ws, "KEEPALIVE")
              ELSE sentk
    /\ UNCHANGED <<env, aggVars, dashVars>>

\* recv() returns a FEED_DATA frame and on_data_callback raises.
StreamCallbackRaises(i) ==
    /\ loop[i].pc = "stream"
    /\ IsOpen(loop[i].conn)
    /\ Deliver
    /\ dispatched' = dispatched + 1
    /\ LoopFailed(i)
    /\ UNCHANGED <<running, ws, thread, transport, ctl>>
    /\ UNCHANGED <<sentk, rcvd>>
    /\ UNCHANGED <<env, aggVars, dashVars>>

\* recv() on a closed transport raises WebSocketConnectionClosedException.
StreamRecvClosed(i) ==
    /\ loop[i].pc = "stream"
    /\ ~IsOpen(loop[i].conn)
    /\ LoopFailed(i)
    /\ UNCHANGED <<running, ws, thread, transport, ctl, dispatched, delivered>>
    /\ UNCHANGED <<sentk, rcvd>>
    /\ UNCHANGED <<env, aggVars, dashVars>>

\* The feed (or the network) closes a transport.
FeedClose(c) ==
    /\ c \in 1..Len(transport)
    /\ transport[c] = "open"
    /\ transport' = [transport EXCEPT ![c] = "closed"]
    /\ UNCHANGED <<running, connected, ws, thread, loop, ctl, dispatched,
                   delivered>>
    /\ UNCHANGED <<sentk, rcvd>>
    /\ UNCHANGED <<env, aggVars, dashVars>>

-----------------------------------------------------------------------------
(* OptionsWebSocket: start_listening() and stop(), called by one foreground *)
(* caller.                                                                  *)

\* start_listening(): "if self.running: return", else running = True and a
\* new thread is started on _message_loop.
StartListening ==
    /\ ctl = "idle"
    /\ IF running
       THEN UNCHANGED <<running, thread, loop>>
       ELSE /\ thread + 1 \in Loops
            /\ running' = TRUE
            /\ thread' = thread + 1
            /\ loop' = [loop EXCEPT ![thread + 1].pc = "top"]
    /\ UNCHANGED <<connected, ws, transport, ctl, dispatched, delivered>>
    /\ UNCHANGED <<sentk, rcvd>>
    /\ UNCHANGED <<env, aggVars, dashVars>>

\* stop(): self.running = False
StopSignal ==
    /\ ctl = "idle"
    /\ running' = FALSE
    /\ ctl' = "stop_connected"
    /\ UNCHANGED <<connected, ws, thread, transport, loop, dispatched,
                   delivered>>
    /\ UNCHANGED <<sentk, rcvd>>
    /\ UNCHANGED <<env, aggVars, dashVars>>

\* stop(): self.connected = False
StopConnected ==
    /\ ctl = "stop_connected"
    /\ connected' = FALSE
    /\ ctl' = "stop_close"
    /\ UNCHANGED <<running, ws, thread, transport, loop, dispatched, delivered>>
    /\ UNCHANGED <<sentk, rcvd>>
    /\ UNCHANGED <<env, aggVars, dashVars>>

\* stop(): "if self.ws: self.ws.close()"
StopClose ==
    /\ ctl = "stop_close"
    /\ transport' = IF ws # NoConn THEN [transport EXCEPT ![ws] = "closed"]
                    ELSE transport
    /\ ctl' = "stop_join"
    /\ UNCHANGED <<running, connected, ws, thread, loop, dispatched, delivered>>
    /\ UNCHANGED <<sentk, rcvd>>
    /\ UNCHANGED <<env, aggVars, dashVars>>

\* A position in which a thread can stay longer than join waits: a blocking
\* network call (create_connection, recv on an open transport) or a sleep
\* of more than JoinTimeout seconds.  Elsewhere the thread runs on at once.
CanOutlastJoin(i) ==
    \/ loop[i].pc = "create"
    \/ loop[i].pc \in {"auth", "chan", "price", "stream"} /\ IsOpen(loop[i].conn)
    \/ loop[i].pc = "sleep" /\ loop[i].delay > JoinTimeout

\* stop(): "if self.thread: self.thread.join(timeout=5)" returns when the
\* thread has ended or the five seconds are over.
StopJoin ==
    /\ ctl = "stop_join"
    /\ IF thread = NoLoop THEN TRUE
       ELSE \/ loop[thread].pc \in {"unborn", "exited"}
            \/ CanOutlastJoin(thread)
    /\ ctl' = "idle"
    /\ UNCHANGED <<running, connected, ws, thread, transport, loop, dispatched,
                   delivered>>
    /\ UNCHANGED <<sentk, rcvd>>
    /\ UNCHANGED <<env, aggVars, dashVars>>

\* The state after OptionsWebSocket.__init__.
InitSession ==
    /\ running = FALSE
    /\ connected = FALSE
    /\ ws = NoConn
    /\ thread = NoLoop
    /\ transport = <<>>
    /\ loop = [i \in Loops |-> LoopInit]
    /\ ctl = "idle"
    /\ dispatched = 0
    /\ delivered = 0
    /\ sentk = <<>>
    /\ rcvd = <<>>

InitWS ==
    /\ InitSession
    /\ env = [conns |-> MaxConns, frames |-> MaxFrames, log |-> FALSE]

\* The steps of a background thread that do not wait for the feed.
LoopInternal(i) ==
    \/ LoopTop(i)
    \/ ConnectCreate(i)
    \/ ConnectCreateFails(i)
    \/ ConnectSetup(i)
    \/ ConnectRecvClosed(i)
    \/ SleepDone(i)
    \/ PriceSubscribe(i)
    \/ PriceRecvClosed(i)
    \/ SubscribeOptions(i)
    \/ StreamCheck(i)
    \/ StreamRecvClosed(i)

\* The steps of a background thread in which recv() returns a frame.
LoopRecv(i) ==
    \/ \E f \in FrameKinds : ConnectAuthRecv(i, f)
    \/ \E f \in FrameKinds : ConnectChanRecv(i, f)
    \/ \E f \in FrameKinds : PriceRecv(i, f)
    \/ \E f \in FrameKinds : StreamRecv(i, f)
    \/ StreamCallbackRaises(i)

StopSteps == StopConnected \/ StopClose \/ StopJoin

\* The steps of a background thread up to the return of connect().
ConnectStep(i) ==
    \/ LoopTop(i)
    \/ ConnectCreate(i)
    \/ ConnectCreateFails(i)
    \/ ConnectSetup(i)
    \/ ConnectRecvClosed(i)
    \/ SleepDone(i)

\* The recv() calls of connect() that return a frame.
ConnectRecv(i) ==
    \/ \E f \in FrameKinds : ConnectAuthRecv(i, f)
    \/ \E f \in FrameKinds : ConnectChanRecv(i, f)

NextWS ==
    \/ \E i \in Loops : LoopInternal(i) \/ LoopRecv(i)
    \/ \E c \in 1..env.conns : FeedClose(c)
    \/ StartListening
    \/ StopSignal
    \/ StopSteps

\* connect() alone: the threads of start_listening up to the return of
\* connect(), the feed and the caller of start_listening and stop.
NextHS ==
    \/ \E i \in Loops : ConnectStep(i) \/ ConnectRecv(i)
    \/ \E c \in 1..env.conns : FeedClose(c)
    \/ StartListening
    \/ StopSignal
    \/ StopSteps

-----------------------------------------------------------------------------
(* generate_option_symbols and the subscription of subscribe_to_options.    *)
(* Prices, strikes and increments are counted in halves: 201 is 100.5.      *)

\* Halves in one unit.
Scale == 2

\* center_price of the calls, 98.0 to 102.5.
CenterPrices == 196..205

\* increment of the calls: 0.5, 1, 2.5 and 5.
Increments == {1, 2, 5, 10}

\* strikes_up and strikes_down of the calls.
StrikeCounts == 0..2

\* option_prefix of the calls.
Prefixes == {<<"A">>, <<"S", "P", "C">>}

\* expiration of the calls.
Expiration == <<"2", "5", "0", "1", "0", "1">>

\* self.underlying
Underlying == <<"S", "P", "X">>

NoRequest == [impl |-> "none", center |-> 0, prefix |-> <<>>, up |-> 0,
              down |-> 0, increment |-> 0]

\* a // b
FloorDiv(a, b) == a \div b

\* round(a / b): to the nearest whole number, a tie to the even one.
RoundHalfEven(a, b) ==
    LET q == a \div b
        r == a % b
    IN  IF 2 * r < b THEN q
        ELSE IF 2 * r > b THEN q + 1
        ELSE IF q % 2 = 0 THEN q ELSE q + 1

DigitChar(d) == CHOOSE c \in Digits : DigitVal(c) = d

\* str() of a whole number that is not negative.
RECURSIVE ToDigits(_)
ToDigits(n) ==
    IF n < 10 THEN <<DigitChar(n)>>
    ELSE ToDigits(n \div 10) \o <<DigitChar(n % 10)>>

\* "if strike == int(strike): str(int(strike)) else: str(strike)"
StrStrike(h) ==
    IF h % Scale = 0 THEN ToDigits(h \div Scale)
    ELSE ToDigits(h \div Scale) \o <<".", "5">>

\* int(current_strike), kept in halves.
IntOf(h) == (h \div Scale) * Scale

\* f".{option_prefix}{expiration}C{strike}", f"...P{strike}" per strike.
SymbolsOf(prefix, texts) ==
    [j \in 1..(2 * Len(texts)) |->
        <<".">> \o prefix \o Expiration
          \o <<IF j % 2 = 1 THEN "C" ELSE "P">> \o texts[(j + 1) \div 2]]

\* demo_dashboard: range(-strikes_down, strikes_up + 1) around
\* round(center_price / increment) * increment.
DemoStrikes(center, up, down, increment) ==
    LET center_strike == RoundHalfEven(center, increment) * increment
    IN  [j \in 1..(down + up + 1) |-> center_strike + (j - 1 - down) * increment]

GenerateOptionSymbolsDemo(center, prefix, up, down, increment) ==
    LET strikes == DemoStrikes(center, up, down, increment)
    IN  SymbolsOf(prefix, [j \in 1..Len(strikes) |-> StrStrike(strikes[j])])

\* websocket_manager: "while current_strike <= end:
\*     strikes.append(int(current_strike)); current_strike += increment"
RECURSIVE StrikeLoop(_, _, _)
StrikeLoop(current, end, increment) ==
    IF current <= end
    THEN <<IntOf(current)>> \o StrikeLoop(current + increment, end, increment)
    ELSE <<>>

\* websocket_manager: start and end are floored to multiples of increment
\* and end is moved one increment up.
WsStrikes(center, up, down, increment) ==
    LET start == FloorDiv(center - down * increment, increment) * increment
        end   == (FloorDiv(center + up * increment, increment) + 1) * increment
    IN  StrikeLoop(start, end, increment)

GenerateOptionSymbols(center, prefix, up, down, increment) ==
    LET strikes == WsStrikes(center, up, down, increment)
    IN  SymbolsOf(prefix, [j \in 1..Len(strikes) |->
                              ToDigits(strikes[j] \div Scale)])

\* "for sym in options: add_list.append(...)" four times, for the first n
\* symbols, then the Quote of the underlying.
RECURSIVE AddListLoop(_, _)
AddListLoop(syms, n) ==
    IF n = 0 THEN <<>>
    ELSE AddListLoop(syms, n - 1)
           \o <<[symbol |-> syms[n], type |-> "Quote"],
                [symbol |-> syms[n], type |-> "Trade"],
                [symbol |-> syms[n], type |-> "Greeks"],
                [symbol |-> syms[n], type |-> "Summary"]>>

\* An add-list without the entry of the underlying.
AddListOptionsOnly(syms, n) == AddListLoop(syms, n)

\* add_list of subscribe_to_options for n option symbols.
AddList(syms, n) ==
    AddListLoop(syms, n) \o <<[symbol |-> Underlying, type |-> "Quote"]>>

\* subscribe_to_options with a center price: the ladder, the add-list and
\* the send of the subscription.
SubscribeToOptions(center, prefix, up, down, increment) ==
    /\ request = NoRequest
    /\ LET opts == GenerateOptionSymbols(center, prefix, up, down, increment)
           adds == AddList(opts, Len(opts))
       IN  /\ symbols' = opts
           /\ add_list' = adds
           /\ outbox' = Append(outbox, [type |-> "FEED_SUBSCRIPTION",
                                        channel |-> 1, add |-> adds])
    /\ request' = [impl |-> "ws", center |-> center, prefix |-> prefix,
                   up |-> up, down |-> down, increment |-> increment]
    /\ UNCHANGED <<data, dorder, phase>>
    /\ UNCHANGED <<aggVars, wsVars>>

\* generate_option_symbols of demo_dashboard, called by its main().
GenerateLadderDemo(center, prefix, up, down, increment) ==
    /\ request = NoRequest
    /\ symbols' = GenerateOptionSymbolsDemo(center, prefix, up, down, increment)
    /\ request' = [impl |-> "demo", center |-> center, prefix |-> prefix,
                   up |-> up, down |-> down, increment |-> increment]
    /\ UNCHANGED <<add_list, outbox>>
    /\ UNCHANGED <<data, dorder, phase>>
    /\ UNCHANGED <<aggVars, wsVars>>

InitLadder ==
    /\ request = NoRequest
    /\ symbols = <<>>
    /\ add_list = <<>>
    /\ outbox = <<>>

NextLadder ==
    \E center \in CenterPrices, prefix \in Prefixes, up \in StrikeCounts,
       down \in StrikeCounts, increment \in Increments :
        \/ SubscribeToOptions(center, prefix, up, down, increment)
        \/ GenerateLadderDemo(center, prefix, up, down, increment)

-----------------------------------------------------------------------------
(* Dashboards: fetch_option_data merges the events of the feed into one     *)
(* pending record per symbol; createCalculator applies the records to a new *)
(* GEXCalculator.  Both run in the single thread of the page.               *)

\* A key of a pending record: missing, or present with an optional value.
NoField == {}

Field(x) == {x}

\* data[symbol] = {}
EmptyRecord == [gamma |-> NoField, iv |-> NoField, oi |-> NoField,
                volume |-> NoField]

DashSymbols == {SymCallA, SymPutA}

Volatilities == {None, Some(20)}

DayVolumes == {Some(0), Some(7)}

\* The items of FEED_DATA frames: Greeks, Summary, Trade and one event type
\* the loop has no branch for.
DashEvents ==
    {[eventType |-> "Greeks", gamma |-> g, volatility |-> v,
      openInterest |-> None, dayVolume |-> None] :
        g \in Gammas, v \in Volatilities}
    \cup {[eventType |-> "Summary", gamma |-> None, volatility |-> None,
           openInterest |-> o, dayVolume |-> None] : o \in OpenInterests}
    \cup {[eventType |-> "Trade", gamma |-> None, volatility |-> None,
           openInterest |-> None, dayVolume |-> v] : v \in DayVolumes}
    \cup {[eventType |-> "Quote", gamma |-> None, volatility |-> None,
           openInterest |-> None, dayVolume |-> None]}

\* createCalculator with the "is not None" tests left out.
ApplicableKeysOnly(rec) == rec.gamma # NoField /\ rec.oi # NoField

\* "gamma" in data and "oi" in data, and both values are not None
Applicable(rec) ==
    /\ rec.gamma # NoField /\ rec.oi # NoField
    /\ Val(rec.gamma) # None /\ Val(rec.oi) # None

\* calc.update_gamma(symbol, gamma, oi) run to its end by a single thread,
\* on the calculator calc = [options, gex_by_strike, spot_price].
UpdateGamma(calc, symbol, gamma, oi) ==
    LET parsed == ParseOptionSymbol(symbol)
    IN  IF parsed = None THEN calc
        ELSE LET k    == Val(parsed).strike
                 x    == Val(parsed).type
                 opts == [s \in DOMAIN calc.options \cup {symbol} |->
                            IF s = symbol
                            THEN [gamma |-> gamma, oi |-> oi, type |-> x,
                                  strike |-> k]
                            ELSE calc.options[s]]
             IN  [calc EXCEPT
                    !.options = opts,
                    !.gex_by_strike =
                        SetSide(calc.gex_by_strike, k, x,
                                SideSum(opts, k, x, calc.spot_price))]

\* "for symbol_name, data in option_data.items(): ..." over the first n keys
\* of data, in insertion order.
RECURSIVE ApplyRecords(_, _, _, _)
ApplyRecords(calc, d, order, n) ==
    IF n = 0 THEN calc
    ELSE LET before == ApplyRecords(calc, d, order, n - 1)
             rec    == d[order[n]]
         IN  IF Applicable(rec)
             THEN UpdateGamma(before, order[n], Val(rec.gamma), Val(rec.oi))
             ELSE before

\* One item of a FEED_DATA frame in the loop of fetch_option_data.
FetchOptionData(symbol, item) ==
    /\ phase = "fetch"
    /\ LET base == [s \in DOMAIN data \cup {symbol} |->
                      IF s \in DOMAIN data THEN data[s] ELSE EmptyRecord]
       IN  data' =
             IF item.eventType = "Greeks"
               THEN [base EXCEPT ![symbol].gamma = Field(item.gamma),
                                 ![symbol].iv = Field(item.volatility)]
             ELSE IF item.eventType = "Summary"
               THEN [base EXCEPT ![symbol].oi = Field(item.openInterest)]
             ELSE IF item.eventType = "Trade"
               THEN [base EXCEPT ![symbol].volume = Field(item.dayVolume)]
             ELSE base
    /\ dorder' = IF symbol \in DOMAIN data THEN dorder
                 ELSE Append(dorder, symbol)
    /\ UNCHANGED <<phase, ladderVars>>
    /\ UNCHANGED <<aggVars, wsVars>>

\* createCalculator(option_data, price): GEXCalculator(), update_spot_price,
\* then update_gamma for every record with both values.
CreateCalculator(price) ==
    /\ phase = "fetch"
    /\ LET calc == ApplyRecords([options |-> <<>>, gex_by_strike |-> <<>>,
                                 spot_price |-> price],
                                data, dorder, Len(dorder))
       IN  /\ spot_price' = price
           /\ options' = calc.options
           /\ gex_by_strike' = calc.gex_by_strike
    /\ time_series' = <<>>
    /\ last_snapshot_time' = 0
    /\ phase' = "shown"
    /\ UNCHANGED <<lock, now, pc, local, ret, calls, data, dorder>>
    /\ UNCHANGED <<wsVars, ladderVars>>

InitDash ==
    /\ data = <<>>
    /\ dorder = <<>>
    /\ phase = "fetch"
    /\ InitLadder

NextDash ==
    \/ \E symbol \in DashSymbols, item \in DashEvents :
           FetchOptionData(symbol, item)
    \/ \E price \in Prices : CreateCalculator(price)

-----------------------------------------------------------------------------
(* The calculator read after a run of updates *)

\* f".{option_prefix}{expiration}{C|P}{strike}" with prefix A, expiration
\* 250101.
OptionText(type, strike) ==
    <<".", "A", "2", "5", "0", "1", "0", "1", type>> \o strike

\* Calls and puts at the strikes 100, 105 and 110.
ReadSymbols ==
    {OptionText(x, k) : x \in {"C", "P"},
                        k \in {<<"1", "0", "0">>, <<"1", "0", "5">>,
                               <<"1", "1", "0">>}}

\* Updates applied before the reads.
ReadDepth == 3

\* update_gamma for the first n updates of ups, in order, open interest 3.
RECURSIVE Replay(_, _, _)
Replay(calc, ups, n) ==
    IF n = 0 THEN calc
    ELSE UpdateGamma(Replay(calc, ups, n - 1), ups[n][1], ups[n][2], Some(3))

\* A calculator after ReadDepth calls of update_gamma, nobody inside it.
InitRead ==
    /\ \E ups \in [1..ReadDepth -> ReadSymbols \X Gammas] :
          LET calc == Replay([options |-> <<>>, gex_by_strike |-> <<>>,
                              spot_price |-> DefaultSpot], ups, ReadDepth)
          IN  /\ options = calc.options
              /\ gex_by_strike = calc.gex_by_strike
    /\ spot_price = DefaultSpot
    /\ time_series = <<>>
    /\ last_snapshot_time = 0
    /\ lock = NoHolder
    /\ now = StartTime
    /\ pc = [t \in Threads |-> "idle"]
    /\ local = [t \in Threads |-> LocalInit]
    /\ ret = [t \in Threads |-> "none"]
    /\ calls = 0

\* The reads of the dashboards.
NextRead ==
    \E t \in Readers :
        \/ GetGexByStrikeCall(t)
        \/ GetGexByStrikeAcquire(t)
        \/ GetGexByStrikeBody(t)
        \/ GetTotalGexMetricsCall(t)
        \/ GetTotalGexMetricsAcquire(t)
        \/ GetTotalGexMetricsBody(t)

-----------------------------------------------------------------------------
(* Specifications *)

Init == InitAgg /\ InitWS /\ InitDash

\* The calculator under concurrent callers.
Spec == Init /\ [][NextAgg]_vars

\* The scheduler lets every thread inside an operation take its next step,
\* and a lock that is free again and again is eventually obtained.
FairSpec == Spec /\ \A t \in Threads : SF_vars(Continue(t))

\* The streaming client: background threads, the feed and the caller of
\* start_listening and stop.
SpecWS == Init /\ [][NextWS]_vars

\* One call that builds an option ladder.
SpecLadder == Init /\ [][NextLadder]_vars

\* Reads of a calculator that a run of updates has filled.
InitReader == InitRead /\ InitWS /\ InitDash

SpecRead == InitReader /\ [][NextRead]_vars

\* One page run of a dashboard: events are merged, then applied.
SpecDash == Init /\ [][NextDash]_vars

\* The streaming client with the frames on the wire recorded.
InitWire ==
    /\ InitAgg
    /\ InitSession
    /\ env = [conns |-> MaxConns, frames |-> MaxFrames, log |-> TRUE]
    /\ InitDash

SpecWire == InitWire /\ [][NextWS]_vars

\* connect() with the wire recorded, on a network that lets a second
\* transport be opened.
InitHS ==
    /\ InitAgg
    /\ InitSession
    /\ env = [conns |-> HSConns, frames |-> HSFrames, log |-> TRUE]
    /\ InitDash

SpecHS == InitHS /\ [][NextHS]_vars

\* Threads and the caller of stop() keep running; the feed owes nothing.
FairSpecWS ==
    /\ SpecWS
    /\ \A i \in Loops : WF_vars(LoopInternal(i))
    /\ WF_vars(StopSteps)

-----------------------------------------------------------------------------
(* Properties of the calculator *)

\* The sum the data model prescribes for one side of a strike, written out
\* from the tracked records.
RECURSIVE ExposureOf(_, _, _)
ExposureOf(syms, strike, type) ==
    IF syms = {} THEN 0
    ELSE LET s    == CHOOSE x \in syms : TRUE
             rest == ExposureOf(syms \ {s}, strike, type)
         IN  IF /\ options[s].strike = strike
                /\ options[s].type = type
                /\ options[s].gamma # None
                /\ options[s].oi # None
             THEN Val(options[s].gamma) * Val(options[s].oi) * 100 * spot_price
                  + rest
             ELSE rest

\* C1: at the step in which update_gamma returns for a symbol of side X and
\* strike K, the stored X-side exposure of K equals the sum of
\* gamma * oi * 100 * spot over the tracked records of K and X with both
\* values present.
C1_ExposureIsSumAfterUpdate ==
    [][\A t \in Threads :
          (pc[t] = "upd_recalc" /\ pc'[t] = "idle") =>
              \A k \in {local[t].strike}, x \in {local[t].type} :
                  (SideValue(gex_by_strike, k, x)
                   = ExposureOf(DOMAIN options, k, x))']_vars

\* C1 witness: strike 100 holds two call records with both values present,
\* the spot price is no longer the default and the call side is their sum.
C1_Witness ==
    /\ \A t \in Threads : pc[t] = "idle"
    /\ spot_price # DefaultSpot
    /\ {SymCallA, SymCallB} \subseteq DOMAIN options
    /\ options[SymCallA].gamma # None /\ options[SymCallA].oi # None
    /\ options[SymCallB].gamma # None /\ options[SymCallB].oi # None
    /\ SideValue(gex_by_strike, 100, "C") = ExposureOf(DOMAIN options, 100, "C")
    /\ SideValue(gex_by_strike, 100, "C") > 0

\* C2: every invocation of every calculator operation eventually returns.
C2_EveryCallReturns ==
    \A t \in Threads : (pc[t] # "idle") ~> (pc[t] = "idle")

\* C3: a read (get_gex_by_strike, get_total_gex_metrics) is never taken while
\* an update_gamma is between its record upsert and its recompute.
C3_ReadsSeeWholeUpdates ==
    [][\A t \in Threads :
          (pc[t] \in {"gbs_body", "met_body"} /\ pc'[t] # pc[t]) =>
              \A u \in Threads \ {t} : pc[u] # "upd_recalc"]_vars

\* C3 witness: a reader waits for the lock while an update has stored its
\* record and not yet recomputed.
C3_Witness ==
    \E t \in Threads, u \in Threads :
        /\ pc[t] \in {"gbs_acquire", "met_acquire"}
        /\ pc[u] = "upd_recalc"
        /\ lock = u

\* C4: a call of add_time_series_snapshot that finds at least 5 seconds
\* elapsed since the last snapshot appends one snapshot and returns True.
C4_DueSnapshotIsAppended ==
    \A t \in Threads :
        (pc[t] = "snap_acquire")
            ~> (pc[t] = "idle" /\ ret[t] = "True" /\ Len(time_series) >= 1)

\* C5: once snapshots are due the time series holds them, the newest last,
\* and never more than 720 of them.
C5_RingHoldsNewest ==
    (\E t \in Threads : pc[t] = "snap_acquire")
        ~> (/\ Len(time_series) \in 1..MAXLEN
            /\ time_series[Len(time_series)].timestamp = last_snapshot_time)

\* C6: after a call appended a snapshot at time t, every snapshot left has a
\* timestamp of at least t - 3600.
C6_AppendedWithinRetention ==
    (\E t \in Threads : pc[t] = "snap_acquire")
        ~> (/\ last_snapshot_time >= StartTime
            /\ \A i \in 1..Len(time_series) :
                  time_series[i].timestamp
                      >= last_snapshot_time - MaxHistorySeconds)

-----------------------------------------------------------------------------
(* Properties of the calculator: reads, repeated and rejected updates *)

\* C16: the rows get_gex_by_strike returns have strictly ascending strikes
\* and net_gex = call_gex - put_gex.
C16_StrikesAscending ==
    LET rows == GetGexByStrike(gex_by_strike)
    IN  /\ Len(rows) = Len(gex_by_strike)
        /\ \A i \in 1..Len(rows) :
              /\ rows[i].net_gex = rows[i].call_gex - rows[i].put_gex
              /\ i < Len(rows) => rows[i].strike < rows[i + 1].strike

\* C16 witness: strike 105 was tracked before strike 100.
C16_Witness ==
    /\ Len(gex_by_strike) = 2
    /\ gex_by_strike[1].strike = 105
    /\ gex_by_strike[2].strike = 100
    /\ gex_by_strike[2].call_gex + gex_by_strike[2].put_gex > 0

\* C17: when update_gamma returns, the same call made once more leaves the
\* option records and every strike exposure as they are.
C17_UpdateIdempotent ==
    [][\A t \in Threads :
          (pc[t] = "upd_recalc" /\ pc'[t] = "idle") =>
              \A once \in {[options       |-> options',
                             gex_by_strike |-> gex_by_strike',
                             spot_price    |-> spot_price']} :
                  UpdateGamma(once, local[t].symbol, local[t].gamma,
                              local[t].oi) = once]_vars

\* C17 witness: after two calls a tracked call record holds both values
\* and its strike has a call exposure.
C17_Witness ==
    /\ \A t \in Threads : pc[t] = "idle"
    /\ calls = 2
    /\ SymCallA \in DOMAIN options
    /\ options[SymCallA].gamma = Some(2) /\ options[SymCallA].oi = Some(3)
    /\ SideValue(gex_by_strike, 100, "C") = 2 * 3 * 100 * spot_price

\* C18: update_gamma with the text NOTASYMBOL goes from its parse straight
\* to its return, and neither step changes option records, exposures, spot
\* price, time series or the lock.
C18_BadSymbolIgnored ==
    [][\A t \in Threads :
          /\ (pc[t] = "idle" /\ pc'[t] # "idle" /\ local'[t].symbol = SymBad)
                => /\ pc'[t] = "upd_invalid"
                   /\ UNCHANGED <<options, gex_by_strike, spot_price,
                                  time_series, last_snapshot_time, lock>>
          /\ (pc[t] = "upd_invalid" /\ pc'[t] # "upd_invalid")
                => /\ pc'[t] = "idle"
                   /\ UNCHANGED <<options, gex_by_strike, spot_price,
                                  time_series, last_snapshot_time, lock>>]_vars

\* C18 witness: with a put record tracked and its exposure stored, a call
\* with NOTASYMBOL is about to return.
C18_Witness ==
    /\ \E t \in Threads : pc[t] = "upd_invalid" /\ local[t].symbol = SymBad
    /\ SymPutA \in DOMAIN options
    /\ SideValue(gex_by_strike, 100, "P") > 0

\* The whole text is '.' letters, six digits, C or P, digits.
FullShape(s) ==
    \E nl \in 1..Len(s) :
        /\ Len(s) >= nl + 9
        /\ s[1] = "."
        /\ \A i \in 2..(nl + 1) : s[i] \in Letters
        /\ \A i \in (nl + 2)..(nl + 7) : s[i] \in Digits
        /\ s[nl + 8] \in {"C", "P"}
        /\ \A i \in (nl + 9)..Len(s) : s[i] \in Digits

\* C19: only texts whose whole shape is that of an option symbol are ever
\* tracked.
C19_OnlyWholeSymbolsTracked ==
    \A s \in DOMAIN options : FullShape(s)

\* C20: update_spot_price sets the spot price and changes neither option
\* records nor strike exposures nor the time series.
C20_SpotOnly ==
    [][\A t \in Threads :
          (pc[t] = "spot_body" /\ pc'[t] = "idle") =>
              /\ spot_price' = local[t].price
              /\ UNCHANGED <<options, gex_by_strike, time_series,
                             last_snapshot_time>>]_vars

\* C20 witness: after a change of the spot price a call exposure still has
\* the value computed under the old price.
C20_Witness ==
    /\ \A t \in Threads : pc[t] = "idle"
    /\ spot_price # DefaultSpot
    /\ SideValue(gex_by_strike, 100, "C") > 0
    /\ SideValue(gex_by_strike, 100, "C")
          # ExposureOf(DOMAIN options, 100, "C")

\* C21: with at least one strike tracked, get_total_gex_metrics reports a
\* tracked strike whose |net| is at least that of every tracked strike, the
\* first such strike in insertion order, together with its net value.
C21_MaxStrikeIsTracked ==
    gex_by_strike # <<>> =>
        LET m == GetTotalGexMetrics(gex_by_strike, options)
        IN  \E i \in 1..Len(gex_by_strike) :
                /\ m.max_gex_strike = gex_by_strike[i].strike
                /\ m.max_gex_value = NetGex(gex_by_strike[i])
                /\ \A j \in 1..Len(gex_by_strike) :
                      /\ Abs(NetGex(gex_by_strike[j]))
                           <= Abs(NetGex(gex_by_strike[i]))
                      /\ j < i => Abs(NetGex(gex_by_strike[j]))
                                    < Abs(NetGex(gex_by_strike[i]))

\* The adjacent pairs of the sorted rows whose net values have opposite
\* signs, by the index of their lower strike.
Crossings(rows) ==
    {i \in 1..(Len(rows) - 1) :
        \/ rows[i].net_gex > 0 /\ rows[i + 1].net_gex < 0
        \/ rows[i].net_gex < 0 /\ rows[i + 1].net_gex > 0}

\* C22: the zero gamma level is present exactly when some adjacent pair of
\* sorted strikes has net values of opposite sign; it is then
\* s1 + (s2 - s1) * (-n1) / (n2 - n1) of the lowest such pair, strictly
\* between s1 and s2; strikes 100 (net +50) and 105 (net -30) give 103.125.
C22_ZeroGammaCrossing ==
    LET rows == GetGexByStrike(gex_by_strike)
        z    == ZeroGammaLevel(gex_by_strike)
        ex   == ZeroGammaLevel(<<[strike |-> 105, call_gex |-> 0, put_gex |-> 30],
                                 [strike |-> 100, call_gex |-> 50, put_gex |-> 0]>>)
    IN  /\ (z # None) <=> (Crossings(rows) # {})
        /\ Len(rows) < 2 => z = None
        /\ Crossings(rows) # {} =>
              LET i  == CHOOSE c \in Crossings(rows) :
                            \A d \in Crossings(rows) : c <= d
                  s1 == rows[i].strike
                  s2 == rows[i + 1].strike
                  n1 == rows[i].net_gex
                  n2 == rows[i + 1].net_gex
                  v  == Val(z)
              IN  /\ v.den = n2 - n1
                  /\ v.num = s1 * (n2 - n1) + (s2 - s1) * (-n1)
                  /\ IF v.den > 0
                     THEN s1 * v.den < v.num /\ v.num < s2 * v.den
                     ELSE s1 * v.den > v.num /\ v.num > s2 * v.den
        /\ ex # None /\ Val(ex).num * 1000 = 103125 * Val(ex).den

\* C22 witness: the metrics are read with three strikes tracked, the lowest
\* with net zero and a change of sign between the upper two only.
C22_Witness ==
    LET rows == GetGexByStrike(gex_by_strike)
    IN  /\ Len(rows) = 3
        /\ rows[1].net_gex = 0
        /\ Crossings(rows) = {2}
        /\ ZeroGammaLevel(gex_by_strike) # None
        /\ \E t \in Threads : pc[t] = "met_body"

C24_AbsentValueContributesNothing ==
    [][\A t \in Threads :
          (/\ pc[t] = "upd_recalc" /\ pc'[t] = "idle"
           /\ (local[t].gamma = None \/ local[t].oi = None)) =>
              \A sym \in {local[t].symbol}, k \in {local[t].strike},
                 x \in {local[t].type}, g \in {local[t].gamma},
                 o \in {local[t].oi} :
                  (/\ sym \in DOMAIN options
                   /\ options[sym].gamma = g /\ options[sym].oi = o
                   /\ SideValue(gex_by_strike, k, x)
                        = ExposureOf(DOMAIN options \ {sym}, k, x))']_vars

\* C24 witness: a call record whose gamma is now absent is stored, the side
\* of its strike still holds its earlier amount on top of that of another
\* record, and the recompute is about to run.
C24_Witness ==
    \E t \in Threads :
        /\ pc[t] = "upd_recalc"
        /\ local[t].gamma = None
        /\ ExposureOf(DOMAIN options, local[t].strike, local[t].type) > 0
        /\ SideValue(gex_by_strike, local[t].strike, local[t].type)
             > ExposureOf(DOMAIN options, local[t].strike, local[t].type)

\* The strikes of the model's symbols.
ModelStrikes == {100, 105}

\* C30: the store of update_gamma changes the record of its symbol only, and
\* the recompute changes the side X of strike K only; the other side, other
\* strikes, other records, spot price and time series stay as they are.
C30_UpdateTouchesOneSide ==
    [][\A t \in Threads :
          /\ (pc[t] = "upd_store" /\ pc'[t] = "upd_recalc") =>
                /\ DOMAIN options' = DOMAIN options \cup {local[t].symbol}
                /\ \A s \in DOMAIN options \ {local[t].symbol} :
                      options'[s] = options[s]
                /\ UNCHANGED <<gex_by_strike, spot_price, time_series>>
          /\ (pc[t] = "upd_recalc" /\ pc'[t] = "idle") =>
                /\ UNCHANGED <<options, spot_price, time_series>>
                /\ \A k \in ModelStrikes, x \in {"C", "P"} :
                      (k # local[t].strike \/ x # local[t].type) =>
                          SideValue(gex_by_strike', k, x)
                            = SideValue(gex_by_strike, k, x)]_vars

\* C30 witness: after a change of the spot price and an update of a put at
\* strike 100, the put side is the sum under the new price and the call side
\* still has the value computed under the old one.
C30_Witness ==
    /\ \A t \in Threads : pc[t] = "idle"
    /\ spot_price # DefaultSpot
    /\ SideValue(gex_by_strike, 100, "P") > 0
    /\ SideValue(gex_by_strike, 100, "P") = ExposureOf(DOMAIN options, 100, "P")
    /\ SideValue(gex_by_strike, 100, "C") > 0
    /\ SideValue(gex_by_strike, 100, "C") # ExposureOf(DOMAIN options, 100, "C")

-----------------------------------------------------------------------------
(* Properties of the option ladder *)

\* The strikes the last call worked with, in halves.
LadderStrikes ==
    IF request.impl = "demo"
    THEN DemoStrikes(request.center, request.up, request.down,
                     request.increment)
    ELSE WsStrikes(request.center, request.up, request.down,
                   request.increment)

\* C25: the ladder has 2 * (strikes_down + strikes_up + 1) symbols; its
\* strikes are c + i * increment for i = -strikes_down .. strikes_up with c
\* a multiple of increment nearest to the center price, ascending, and each
\* strike gives its call symbol followed by its put symbol.
C25_LadderShape ==
    request.impl # "none" =>
        LET n == request.down + request.up + 1
        IN  /\ Len(symbols) = 2 * n
            /\ \E c \in (request.center - request.increment)
                          ..(request.center + request.increment) :
                  /\ c % request.increment = 0
                  /\ 2 * Abs(c - request.center) <= request.increment
                  /\ \A j \in 1..n :
                        LET text == StrStrike(c + (j - 1 - request.down)
                                                    * request.increment)
                            head == <<".">> \o request.prefix \o Expiration
                        IN  /\ 2 * j <= Len(symbols)
                            /\ symbols[2 * j - 1] = head \o <<"C">> \o text
                            /\ symbols[2 * j] = head \o <<"P">> \o text

\* C26: every symbol of the ladder is accepted by parse_option_symbol and
\* parses back to the prefix, expiration, side and strike it was made from,
\* and symbols of different strikes parse to different strikes.
C26_LadderRoundTrip ==
    request.impl # "none" =>
        /\ \A j \in 1..Len(symbols) :
              LET parsed == ParseOptionSymbol(symbols[j])
              IN  /\ parsed # None
                  /\ Val(parsed).prefix = request.prefix
                  /\ Val(parsed).expiration = Expiration
                  /\ Val(parsed).type = (IF j % 2 = 1 THEN "C" ELSE "P")
                  /\ Val(parsed).strike * Scale = LadderStrikes[(j + 1) \div 2]
        /\ \A j, k \in 1..Len(symbols) :
              LadderStrikes[(j + 1) \div 2] # LadderStrikes[(k + 1) \div 2]
                => Val(ParseOptionSymbol(symbols[j])).strike
                     # Val(ParseOptionSymbol(symbols[k])).strike

\* C27: the add-list for n option symbols has 4n + 1 entries: Quote, Trade,
\* Greeks, Summary for each symbol in ladder order, then one Quote of the
\* underlying; it is sent in one FEED_SUBSCRIPTION frame on channel 1.
C27_AddListShape ==
    request.impl = "ws" =>
        LET n == Len(symbols)
        IN  /\ Len(add_list) = 4 * n + 1
            /\ \A i \in 1..n :
                  /\ add_list[4 * i - 3] = [symbol |-> symbols[i], type |-> "Quote"]
                  /\ add_list[4 * i - 2] = [symbol |-> symbols[i], type |-> "Trade"]
                  /\ add_list[4 * i - 1] = [symbol |-> symbols[i], type |-> "Greeks"]
                  /\ add_list[4 * i] = [symbol |-> symbols[i], type |-> "Summary"]
            /\ add_list[4 * n + 1] = [symbol |-> Underlying, type |-> "Quote"]
            /\ outbox = <<[type |-> "FEED_SUBSCRIPTION", channel |-> 1,
                           add |-> add_list]>>

\* C27 witness: a subscription for a ladder of at least six symbols is out.
C27_Witness ==
    /\ request.impl = "ws"
    /\ Len(symbols) >= 6
    /\ Len(outbox) = 1
    /\ Len(outbox[1].add) = 4 * Len(symbols) + 1

-----------------------------------------------------------------------------
(* Properties of the dashboards *)

\* The kinds of event whose fields differ between two pending records.
ChangedKinds(old, new) ==
    {k \in {"Greeks", "Summary", "Trade"} :
        \/ k = "Greeks" /\ (old.gamma # new.gamma \/ old.iv # new.iv)
        \/ k = "Summary" /\ old.oi # new.oi
        \/ k = "Trade" /\ old.volume # new.volume}

\* Every key a pending record had is still there.
KeepsKeys(old, new) ==
    /\ old.gamma # NoField => new.gamma # NoField
    /\ old.iv # NoField => new.iv # NoField
    /\ old.oi # NoField => new.oi # NoField
    /\ old.volume # NoField => new.volume # NoField

\* The symbols whose pending record has a gamma and an open interest.
FullyKnown ==
    {s \in DOMAIN data : /\ data[s].gamma \notin {NoField, Field(None)}
                         /\ data[s].oi \notin {NoField, Field(None)}}

\* C15: an event changes the fields of one kind of one symbol and removes
\* none; the calculator built from the records tracks exactly the symbols
\* with gamma and open interest both present, with those values, and its
\* exposures are the sums over them, whatever the volumes are.
C15_MergeAndApply ==
    [][/\ (phase = "fetch" /\ phase' = "fetch") =>
            /\ DOMAIN data \subseteq DOMAIN data'
            /\ Cardinality({s \in DOMAIN data : data'[s] # data[s]}) <= 1
            /\ \A s \in DOMAIN data :
                  /\ KeepsKeys(data[s], data'[s])
                  /\ Cardinality(ChangedKinds(data[s], data'[s])) <= 1
       /\ (phase' = "shown") =>
            (/\ DOMAIN options = FullyKnown
             /\ \A s \in DOMAIN options :
                   /\ options[s].gamma = Val(data[s].gamma)
                   /\ options[s].oi = Val(data[s].oi)
             /\ \A k \in {100, 105}, x \in {"C", "P"} :
                   SideValue(gex_by_strike, k, x)
                       = ExposureOf(DOMAIN options, k, x))']_vars

\* C15 witness: a calculator was built from records of which one has a
\* volume and is tracked, and another has a gamma of None and is not.
C15_Witness ==
    /\ phase = "shown"
    /\ \E s \in DOMAIN options :
          data[s].volume # NoField /\ SideValue(gex_by_strike, 100, "C") > 0
    /\ \E s \in DOMAIN data \ DOMAIN options :
          data[s].gamma = Field(None) /\ data[s].oi # NoField

-----------------------------------------------------------------------------
(* Properties of the streaming client *)

RECURSIVE Pow2(_)
Pow2(n) == IF n <= 0 THEN 1 ELSE 2 * Pow2(n - 1)

ConnectPcs == {"create", "setup", "auth", "chan"}

LoopEnded(i) == loop[i].pc \in {"unborn", "exited"}

\* C7: the wait after the k-th consecutive failure since the last successful
\* connect is min(5 * 2^(k-1), 60) seconds.
C7_BackoffSchedule ==
    \A i \in Loops :
        loop[i].pc = "sleep" =>
            loop[i].delay = Min(5 * Pow2(loop[i].fails - 1), 60)

\* C7 witness: the third consecutive failure waits 20 seconds.
C7_Witness ==
    \E i \in Loops :
        loop[i].pc = "sleep" /\ loop[i].fails = 3 /\ loop[i].delay = 20

\* C8: once stop() has been called and start_listening is not called again,
\* every background loop eventually ends, whether or not the feed goes on
\* sending frames (here it stops sending before MaxFrames frames).
C8_StopEndsLoop ==
    <>[](running = FALSE /\ delivered < MaxFrames)
        => <>[](\A i \in Loops : LoopEnded(i))

\* C9: when stop() has returned and the background loops have ended, the
\* connected flag is false and the transport last opened is closed.
C9_StopLeavesSessionClosed ==
    (/\ ctl = "idle"
     /\ running = FALSE
     /\ thread # NoLoop
     /\ \A i \in Loops : LoopEnded(i))
        => (/\ connected = FALSE
            /\ ws # NoConn => transport[ws] = "closed")

\* C11: on every transport SETUP is the first frame sent, AUTH is sent only
\* after AUTH_STATE UNAUTHORIZED was received on it, CHANNEL_REQUEST only
\* after AUTH_STATE AUTHORIZED was received on it, and connected becomes true
\* only when CHANNEL_OPENED was received on the transport the session holds.
C11_HandshakeOrdered ==
    [][/\ \A c \in 1..Len(transport') :
            /\ sentk'[c] # {} => "SETUP" \in sentk'[c]
            /\ "AUTH" \in sentk'[c] => "AUTH_UNAUTHORIZED" \in rcvd'[c]
            /\ "CHANNEL_REQUEST" \in sentk'[c] => "AUTH_AUTHORIZED" \in rcvd'[c]
       /\ (~connected /\ connected')
            => (ws' # NoConn /\ "CHANNEL_OPENED" \in rcvd'[ws'])]_vars

\* A step in which some recv() of the session returns a KEEPALIVE frame.
KeepaliveReceived(i) ==
    \/ ConnectAuthRecv(i, "KEEPALIVE")
    \/ ConnectChanRecv(i, "KEEPALIVE")
    \/ PriceRecv(i, "KEEPALIVE")
    \/ StreamRecv(i, "KEEPALIVE")

\* C12: every KEEPALIVE frame received on a transport is answered with a
\* KEEPALIVE frame sent on it, and is not handed to the data callback.
C12_KeepaliveAnswered ==
    [][\A i \in Loops :
          KeepaliveReceived(i) =>
              /\ "KEEPALIVE" \in sentk'[loop[i].conn]
              /\ dispatched' = dispatched]_vars

\* Frames that violate the protocol while streaming.
UnexpectedKinds == {"MALFORMED", "AUTH_UNAUTHORIZED", "OTHER"}

\* C13: while running, a frame that violates the protocol in the receive
\* loop marks the session disconnected and puts the loop into its backoff
\* wait.
C13_ViolationReconnects ==
    [][\A i \in Loops, f \in UnexpectedKinds :
          (running /\ StreamRecv(i, f)) =>
              (connected' = FALSE /\ loop'[i].pc = "sleep")]_vars

\* C14: at most one background thread is alive at any time.
C14_OneLoopAlive ==
    Cardinality({i \in Loops : ~LoopEnded(i)}) <= 1

\* C10: connect() always returns: a thread inside connect() leaves it even
\* when the feed sends no further frame.
C10_ConnectReturns ==
    \A i \in Loops, n \in 0..(MaxFrames - 1) :
        (loop[i].pc \in ConnectPcs /\ delivered = n)
            ~> (loop[i].pc \notin ConnectPcs \/ delivered > n)

\* C28: get_underlying_price always returns: a thread waiting in it for the
\* quote of the underlying leaves it even when the feed sends no further
\* frame.
C28_PriceReturns ==
    \A i \in Loops, n \in 0..(MaxFrames - 1) :
        (loop[i].pc = "price" /\ delivered = n)
            ~> (loop[i].pc # "price" \/ delivered > n)

\* C29: a background loop ends only when running is false; while running is
\* true every way out of connect() or of the receive loop other than success
\* leads into the backoff wait, and the wait is followed by a new connect
\* attempt unless stop() is called.
C29_LoopSurvivesFailures ==
    /\ [][\A i \in Loops :
            /\ (loop[i].pc # "exited" /\ loop'[i].pc = "exited") => ~running
            /\ (/\ running
                /\ loop[i].pc \in ConnectPcs \cup {"stream"}
                /\ loop'[i].pc \notin ConnectPcs \cup {"stream", "sub", "check"})
                  => loop'[i].pc = "sleep"]_vars
    /\ \A i \in Loops :
          (loop[i].pc = "sleep") ~> (loop[i].pc = "create" \/ ~running)

\* C29 witness: after three failures in a row the loop is running and asks
\* for a new connection.
C29_Witness ==
    \E i \in Loops :
        /\ running
        /\ loop[i].pc = "create"
        /\ loop[i].fails = 3
        /\ dispatched > 0

====
